---- MODULE Spec2Model ----
(***************************************************************************)
(* Original-Markdown preservation adapters of docling:                     *)
(*   - OriginalMarkdownChunkingDocSerializer  (chunking/original_markdown_ *)
(*     chunker.py), the serializer that substitutes the stored original    *)
(*     text for a whole-document serialization;                            *)
(*   - SingleChunkMarkdownChunker.chunk, the one-chunk generator;          *)
(*   - generate_multimodal_pages (utils/export.py), the page generator.    *)
(*                                                                         *)
(* Texts are sequences of tokens; the token "\n\n" is the paragraph        *)
(* delimiter.  Python's None is a value of its own for each type.          *)
(* Spec drives the serializer and the chunker, SpecPages the page          *)
(* generator.                                                              *)
(***************************************************************************)
EXTENDS Integers, Sequences, FiniteSets, TLC

\* ------------------------------------------------------------------ bounds
\* Longest element list of a DoclingDocument / longest main_text.
MaxItems == 2
\* Longest list of parts handed to serialize_doc.
MaxParts == 2
\* Largest page number of a provenance entry and longest page collection.
MaxPageNo == 2

\* ------------------------------------------------------------------ values
\* None where a text is expected.
NoneText == <<"None">>

\* Texts a document may store as its original Markdown.
OrigTexts == { <<>>, <<"a">>, <<"a", "\n\n", "b">> }

\* Texts of the elements of a DoclingDocument and of serialized parts.
ItemTexts == { <<"a">>, <<"b">> }
PartTexts == { <<>> } \cup ItemTexts

RECURSIVE SeqsUpTo(_, _)
SeqsUpTo(S, n) ==
    IF n = 0 THEN { <<>> }
    ELSE LET shorter == SeqsUpTo(S, n - 1)
         IN  shorter \cup { Append(s, x) : s \in { t \in shorter : Len(t) = n - 1 }, x \in S }

\* ------------------------------------------------- the chunking components
VARIABLES
    doc,          \* the DoclingDocument handed to the serializer and the chunker
    serializer,   \* the OriginalMarkdownChunkingDocSerializer, once constructed
    call,         \* the last completed call: operation, argument, result
    gen,          \* position of the generator returned by chunk(doc)
    chunks,       \* the chunks that generator has yielded so far
    repeated,     \* whether the call before the last was the same operation on the same argument
    raised        \* the exception that left the last operation, "none" if none

chunkVars == <<doc, serializer, call, repeated, gen, chunks, raised>>

VARIABLES
    doc_result,    \* the ConversionResult: original text, pages, legacy document
    pc,            \* position of the generator
    ix,            \* index of the main_text element the loop is at
    page_no,       \* current page number
    start_ix,      \* first index of the current run
    end_ix,        \* last index of the current run
    doc_items,     \* (index, element) pairs of the current run
    content_text,  \* accumulated plain text of the current run
    emitted,       \* the tuples yielded so far
    exc            \* the exception that ended the generator, "none" if none

pageVars == <<doc_result, pc, ix, page_no, start_ix, end_ix, doc_items, content_text,
              emitted, exc>>

vars == <<doc, serializer, call, repeated, gen, chunks, raised,
          doc_result, pc, ix, page_no, start_ix, end_ix, doc_items, content_text,
          emitted, exc>>

\* An element as doc.iterate_items() yields it: the item alone, or wrapped in
\* an (item, level) tuple.
Elements == [ is_tuple : BOOLEAN, item : ItemTexts ]

\* A document: whether it has the get_original_markdown method, what the
\* method returns, its elements, its root element and its origin.
Documents ==
    { [ has_get_original_markdown |-> h[1], original_markdown |-> h[2], items |-> its,
        body |-> <<"body">>, origin |-> "origin" ] :
        h \in { <<FALSE, NoneText>> } \cup { <<TRUE, o>> : o \in OrigTexts \cup { NoneText } },
        its \in SeqsUpTo(Elements, MaxItems) }

\* doc.get_original_markdown(): AttributeError when the document has no such
\* method, else the stored text or None.
GetOriginalMarkdown(d) ==
    IF d.has_get_original_markdown
    THEN [ exc |-> "none", value |-> d.original_markdown ]
    ELSE [ exc |-> "AttributeError: get_original_markdown", value |-> NoneText ]

\* try: doc.get_original_markdown()  except AttributeError: None
TryGetOriginalMarkdown(d) ==
    LET r == GetOriginalMarkdown(d)
    IN  IF r.exc = "AttributeError: get_original_markdown"
        THEN [ exc |-> "none", value |-> NoneText ]
        ELSE r

RECURSIVE Join(_, _)
\* delim.join(texts)
Join(texts, delim) ==
    IF Len(texts) = 0 THEN <<>>
    ELSE IF Len(texts) = 1 THEN texts[1]
    ELSE texts[1] \o delim \o Join(Tail(texts), delim)

\* The standard serializer's serialize_doc: the non-empty part texts joined by
\* a blank line.
StdSerializeDoc(parts) ==
    Join(SelectSeq(parts, LAMBDA p : p # <<>>), <<"\n\n">>)

\* The standard serializer's serialize of one element: its rendered text.
StdSerialize(item) == item

\* doc.export_to_markdown(): the standard serialization of all elements.
ExportToMarkdown(d) ==
    StdSerializeDoc([ i \in 1..Len(d.items) |-> StdSerialize(d.items[i].item) ])

NoSerializer == [ constructed |-> FALSE, original_content |-> NoneText ]
NoCall == [ op |-> "none", arg |-> <<>>, result |-> <<>> ]

\* A call completes with this result: it becomes the last call.
Completes(op, arg, result) ==
    /\ call' = [ op |-> op, arg |-> arg, result |-> result ]
    /\ repeated' = (call.op = op /\ call.arg = arg)

ChunkInit ==
    /\ doc \in Documents
    /\ serializer = NoSerializer
    /\ call = NoCall
    /\ repeated = FALSE
    /\ gen = "none"
    /\ chunks = <<>>
    /\ raised = "none"

\* OriginalMarkdownChunkingSerializerProvider.get_serializer(doc), that is
\* OriginalMarkdownChunkingDocSerializer.__init__.
GetSerializer ==
    /\ ~serializer.constructed
    /\ LET r == TryGetOriginalMarkdown(doc)
       IN  IF r.exc = "none"
           THEN /\ serializer' = [ constructed |-> TRUE, original_content |-> r.value ]
                /\ raised' = "none"
           ELSE /\ serializer' = serializer
                /\ raised' = r.exc
    /\ UNCHANGED <<doc, call, repeated, gen, chunks>>
    /\ UNCHANGED pageVars

\* The text serialize_doc returns for these parts.
SerializeDocSubstitutingAlways(original_content, parts) ==
    IF original_content # NoneText THEN original_content ELSE StdSerializeDoc(parts)

SerializeDocText(original_content, parts) ==
    IF original_content # NoneText /\ Len(parts) > 1
    THEN original_content
    ELSE StdSerializeDoc(parts)

\* serialize_doc that drops the cached text once it has used it.
SerializeDocConsuming(parts) ==
    /\ serializer.constructed
    /\ Completes("serialize_doc", parts, SerializeDocText(serializer.original_content, parts))
    /\ serializer' = [ serializer EXCEPT !.original_content = NoneText ]
    /\ raised' = "none"
    /\ UNCHANGED <<doc, gen, chunks>>
    /\ UNCHANGED pageVars

\* serializer.serialize_doc(parts=parts)
SerializeDoc(parts) ==
    /\ serializer.constructed
    /\ Completes("serialize_doc", parts, SerializeDocText(serializer.original_content, parts))
    /\ raised' = "none"
    /\ UNCHANGED <<doc, serializer, gen, chunks>>
    /\ UNCHANGED pageVars

\* A serialize that substitutes the cached original text.
SerializeTextSubstituting(original_content, item) ==
    IF original_content # NoneText THEN original_content ELSE StdSerialize(item)

\* The text serialize returns for one element.
SerializeText(original_content, item) == StdSerialize(item)

\* serializer.serialize(item=item)
Serialize(item) ==
    /\ serializer.constructed
    /\ Completes("serialize", <<item>>, SerializeText(serializer.original_content, item))
    /\ raised' = "none"
    /\ UNCHANGED <<doc, serializer, gen, chunks>>
    /\ UNCHANGED pageVars

\* chunk(doc): calling a generator function only creates the generator.
ChunkCall ==
    /\ gen \in { "none", "done", "raised" }
    /\ gen' = "created"
    /\ chunks' = <<>>
    /\ raised' = "none"
    /\ UNCHANGED <<doc, serializer, call, repeated>>
    /\ UNCHANGED pageVars

\* A chunk text that is always the recomposed export.
ChunkTextExportOnly(d, original_content) == ExportToMarkdown(d)

\* The text of the chunk: the original content, or the export when it is None.
ChunkText(d, original_content) ==
    IF original_content = NoneText THEN ExportToMarkdown(d) ELSE original_content

\* item_tuple[0] if isinstance(item_tuple, tuple) else item_tuple: the item
\* either way.
Unwrap(element) == element.item

\* A source-item list without the root-element fallback.
DocItemsNoFallback(d) == [ i \in 1..Len(d.items) |-> Unwrap(d.items[i]) ]

\* The source-item list of the chunk's metadata.
DocItems(d) ==
    LET collected == [ i \in 1..Len(d.items) |-> Unwrap(d.items[i]) ]
    IN  IF collected # <<>> THEN collected ELSE <<d.body>>

\* The body of chunk up to its yield.
ChunkBody(lookup) ==
    IF lookup.exc # "none"
    THEN /\ gen' = "raised"
         /\ raised' = lookup.exc
         /\ UNCHANGED chunks
    ELSE /\ gen' = "yielded"
         /\ raised' = "none"
         /\ chunks' = Append(chunks,
                [ text |-> ChunkText(doc, lookup.value),
                  meta |-> [ doc_items |-> DocItems(doc), origin |-> doc.origin ] ])

\* First next() on the generator: the body runs up to the yield.
ChunkYield ==
    /\ gen = "created"
    /\ ChunkBody(TryGetOriginalMarkdown(doc))
    /\ UNCHANGED <<doc, serializer, call, repeated>>
    /\ UNCHANGED pageVars

\* Next next(): the body ends, the iteration is over.
ChunkEnd ==
    /\ gen = "yielded"
    /\ gen' = "done"
    /\ Completes("chunk", <<>>, chunks)
    /\ UNCHANGED <<doc, serializer, chunks, raised>>
    /\ UNCHANGED pageVars

\* Chunks whose metadata copies the processed text, not the original.
PreservedChunksCopyingText(d) ==
    [ i \in 1..Len(d.items) |->
        [ text |-> StdSerialize(Unwrap(d.items[i])),
          meta |-> [ doc_items |-> <<Unwrap(d.items[i])>>, origin |-> d.origin,
                     original_markdown |-> StdSerialize(Unwrap(d.items[i])) ] ] ]

\* The chunks of original-preserving chunking: one per element, its text the
\* element's processed text, its metadata carrying a copy of the whole
\* original text.
PreservedChunks(d) ==
    [ i \in 1..Len(d.items) |->
        [ text |-> StdSerialize(Unwrap(d.items[i])),
          meta |-> [ doc_items |-> <<Unwrap(d.items[i])>>, origin |-> d.origin,
                     original_markdown |-> d.original_markdown ] ] ]

\* backend.chunk_with_original_preservation() on a Markdown file with
\* content: the backend holds the original text and the converted document
\* has elements.
ChunkWithOriginalPreservation ==
    /\ doc.has_get_original_markdown
    /\ doc.original_markdown # NoneText
    /\ Len(doc.items) > 0
    /\ Completes("chunk_with_original_preservation", <<>>, PreservedChunks(doc))
    /\ raised' = "none"
    /\ UNCHANGED <<doc, serializer, gen, chunks>>
    /\ UNCHANGED pageVars

\* ------------------------------------------------- generate_multimodal_pages
\* item.prov is None
NoneProv == << -1 >>

\* item.prov: None, an empty list, or one entry with its page number.
Provs == { NoneProv, <<>> } \cup { <<p>> : p \in 1..MaxPageNo }

\* The text an element of each type carries; a table carries none.
TextOfType(obj_type) ==
    CASE obj_type = "paragraph" -> <<"a">>
      [] obj_type = "table" -> NoneText
      [] OTHER -> <<"b">>

\* Entries of main_text: a BaseText in place (ref "none"), or a Ref to a table
\* that _resolve_ref finds (ref "ok") or does not find (ref "dangling").
\* prov and text are those of the element itself.
MainTextItems ==
    { [ obj_type |-> t, ref |-> "none", prov |-> p, text |-> TextOfType(t) ] :
        t \in { "paragraph", "unknown" }, p \in Provs }
    \cup { [ obj_type |-> "table", ref |-> "ok", prov |-> p, text |-> NoneText ] : p \in Provs }
    \cup { [ obj_type |-> "table", ref |-> "dangling", prov |-> NoneProv, text |-> NoneText ] }

\* The page collection: page k+1 at position k, each with or without a size.
PageLists ==
    UNION { { [ k \in 1..n |-> [ page_no |-> k, has_size |-> f[k] ] ] : f \in [ 1..n -> BOOLEAN ] } :
            n \in 0..MaxPageNo }

\* Conversion results: the get_original_markdown capability and its value,
\* the pages, and the legacy document's main_text (possibly None).
ConversionResults ==
    { [ has_get_original_markdown |-> h[1], original_markdown |-> h[2],
        pages |-> ps, main_text_is_none |-> FALSE, main_text |-> mt ] :
        h \in { <<FALSE, NoneText>>, <<TRUE, NoneText>>, <<TRUE, <<"a">> >> },
        ps \in PageLists, mt \in SeqsUpTo(MainTextItems, MaxItems) }
    \cup
    { [ has_get_original_markdown |-> TRUE, original_markdown |-> <<"a">>,
        pages |-> <<>>, main_text_is_none |-> TRUE, main_text |-> <<>> ] }

\* The mapping of element types to DocLayNet labels; "None" for no entry.
label_to_doclaynet(item_type) ==
    CASE item_type = "title" -> "title"
      [] item_type = "table-of-contents" -> "document_index"
      [] item_type = "subtitle-level-1" -> "section_header"
      [] item_type = "checkbox-selected" -> "checkbox_selected"
      [] item_type = "checkbox-unselected" -> "checkbox_unselected"
      [] item_type = "caption" -> "caption"
      [] item_type = "page-header" -> "page_header"
      [] item_type = "page-footer" -> "page_footer"
      [] item_type = "footnote" -> "footnote"
      [] item_type = "table" -> "table"
      [] item_type = "formula" -> "formula"
      [] item_type = "list-item" -> "list_item"
      [] item_type = "code" -> "code"
      [] item_type = "figure" -> "picture"
      [] item_type = "picture" -> "picture"
      [] item_type = "reference" -> "text"
      [] item_type = "paragraph" -> "text"
      [] item_type = "text" -> "text"
      [] OTHER -> "None"

\* isinstance(orig_item, Ref)
IsRef(item) == item.ref # "none"

\* doc._resolve_ref(orig_item) if it is a Ref, else the element: None or the
\* element referred to.
ResolvesToNone(item) == item.ref = "dangling"
Resolved(item) == [ item EXCEPT !.ref = "none" ]

\* item is not None and item.prov is not None and len(item.prov) > 0
HasProv(item) == ~ResolvesToNone(item) /\ item.prov # NoneProv /\ Len(item.prov) > 0

\* The scan that decides whether any element carries page information.
HasItemsWithPages(main_text) == \E i \in 1..Len(main_text) : HasProv(main_text[i])

\* s[start:stop] of Python, indices counted from 0, negative ones from the end.
PyIndex(i, n) == IF i < 0 THEN (IF i + n < 0 THEN 0 ELSE i + n) ELSE (IF i > n THEN n ELSE i)
PySlice(s, start, stop) ==
    LET lo == PyIndex(start, Len(s))
        hi == PyIndex(stop, Len(s))
    IN  IF hi <= lo THEN <<>> ELSE SubSeq(s, lo + 1, hi)

\* What one element contributes to the legacy Markdown export.
LegacyMarkdownOf(item) ==
    IF ResolvesToNone(item) THEN <<>>
    ELSE CASE item.obj_type = "paragraph" -> item.text
           [] item.obj_type = "table" -> <<"|table|">>
           [] OTHER -> <<>>

\* doc.export_to_markdown(main_text_start=start, main_text_stop=stop) of the
\* legacy document: the elements of main_text[start:stop], blank-line joined.
LegacyExportToMarkdown(main_text, start, stop) ==
    LET slice == PySlice(main_text, start, stop)
        texts == [ i \in 1..Len(slice) |-> LegacyMarkdownOf(slice[i]) ]
    IN  Join(SelectSeq(texts, LAMBDA t : t # <<>>), <<"\n\n">>)

\* What one element contributes to the document-tokens export.
LegacyTokensOf(item, add_page_index) ==
    IF ResolvesToNone(item) \/ label_to_doclaynet(item.obj_type) = "None" THEN <<>>
    ELSE << "<", item.obj_type, ">" >>
         \o (IF add_page_index /\ HasProv(item) THEN << "<page>", ToString(item.prov[1]) >> ELSE <<>>)
         \o (IF item.text = NoneText THEN <<>> ELSE item.text)
         \o << "</", item.obj_type, ">" >>

RECURSIVE Flatten(_)
Flatten(ss) == IF ss = <<>> THEN <<>> ELSE Head(ss) \o Flatten(Tail(ss))

\* doc.export_to_document_tokens(main_text_start=start, main_text_stop=stop,
\* add_page_index=add_page_index)
LegacyExportToDocumentTokens(main_text, start, stop, add_page_index) ==
    LET slice == PySlice(main_text, start, stop)
    IN  <<"<document>">>
        \o Flatten([ i \in 1..Len(slice) |-> LegacyTokensOf(slice[i], add_page_index) ])
        \o <<"</document>">>

\* _process_page_cells(page): the page's cells reprojected, none when the page
\* has no size.
ProcessPageCells(page) ==
    IF ~page.has_size THEN <<>>
    ELSE << [ text |-> "cell", bbox |-> <<"normalized", page.page_no>>,
              ocr |-> FALSE, ocr_confidence |-> 1 ] >>

\* What _process_page_segments does with one (ix, item) pair: skip it, raise,
\* or build its segment.
SegmentOf(entry, page) ==
    LET item == entry[2]
        label == label_to_doclaynet(item.obj_type)
    IN  IF label = "None" THEN [ kind |-> "skip" ]
        ELSE IF IsRef(item) THEN [ kind |-> "AttributeError: prov" ]
        ELSE IF item.prov = NoneProv \/ ~page.has_size THEN [ kind |-> "skip" ]
        ELSE IF Len(item.prov) = 0 THEN [ kind |-> "IndexError: prov[0]" ]
        ELSE [ kind |-> "segment",
               segment |->
                 [ index_in_doc |-> entry[1],
                   label |-> label,
                   text |-> IF item.text # NoneText THEN item.text ELSE <<>>,
                   bbox |-> <<"normalized", item.prov[1], page.page_no>>,
                   data |-> IF item.obj_type = "table" THEN <<"html_seq">> ELSE <<>> ] ]

\* _process_page_segments(doc_items, page): the segments in element order, or
\* the exception of the first element that raises.
ProcessPageSegments(items, page) ==
    LET results == [ i \in 1..Len(items) |-> SegmentOf(items[i], page) ]
        failing == { i \in 1..Len(items) : results[i].kind \notin { "skip", "segment" } }
        kept == SelectSeq(results, LAMBDA r : r.kind = "segment")
    IN  IF failing # {}
        THEN [ exc |-> results[CHOOSE i \in failing : \A j \in failing : i <= j].kind,
               segments |-> <<>> ]
        ELSE [ exc |-> "none", segments |-> [ i \in 1..Len(kept) |-> kept[i].segment ] ]

\* A Markdown field that does not look at where the run ends.
PageMarkdownNoEndCheck(dr, original_md, s_ix, e_ix) ==
    IF original_md # NoneText /\ s_ix = 0 /\ ~dr.main_text_is_none
    THEN original_md
    ELSE LegacyExportToMarkdown(dr.main_text, s_ix, e_ix)

\* The Markdown field of _process_page: the original text for the run that
\* spans main_text, else the export of the run's range.
PageMarkdown(dr, original_md, s_ix, e_ix) ==
    IF /\ original_md # NoneText
       /\ s_ix = 0
       /\ ~dr.main_text_is_none
       /\ e_ix = Len(dr.main_text) - 1
    THEN original_md
    ELSE LegacyExportToMarkdown(dr.main_text, s_ix, e_ix)

\* A tokenized field that takes the original text for the whole document.
PageTokensSubstituting(dr, original_md, s_ix, e_ix) ==
    IF original_md # NoneText /\ s_ix = 0 /\ e_ix = Len(dr.main_text) - 1
    THEN original_md
    ELSE LegacyExportToDocumentTokens(dr.main_text, s_ix, e_ix, FALSE)

\* The tokenized field of _process_page and of the synthetic page.
PageTokens(dr, original_md, s_ix, e_ix) ==
    LegacyExportToDocumentTokens(dr.main_text, s_ix, e_ix, FALSE)

\* A yielded tuple; start_ix and end_ix record the run it was built for.
PageTuple(text, md, dt, cells, segments, page, s_ix, e_ix) ==
    [ content_text |-> text, content_md |-> md, content_dt |-> dt,
      page_cells |-> cells, page_segments |-> segments, page |-> page,
      start_ix |-> s_ix, end_ix |-> e_ix ]

NoTuple == PageTuple(<<>>, <<>>, <<>>, <<>>, <<>>, [ page_no |-> 0, has_size |-> FALSE ], 0, 0)

\* _process_page() on the generator's current variables: the exception it
\* raises, or the tuple it returns.
ProcessPage(dr, p_no, s_ix, e_ix, items, text) ==
    LET page_ix == p_no - 1
        n == Len(dr.pages)
    IN  IF page_ix >= n \/ page_ix < -n
        THEN [ exc |-> "IndexError: pages[page_ix]", out |-> NoTuple ]
        ELSE
        LET page == dr.pages[IF page_ix >= 0 THEN page_ix + 1 ELSE n + page_ix + 1]
            page_cells == ProcessPageCells(page)
            segs == ProcessPageSegments(items, page)
            lookup == GetOriginalMarkdown(dr)
        IN  IF segs.exc # "none" THEN [ exc |-> segs.exc, out |-> NoTuple ]
            ELSE IF lookup.exc # "none" THEN [ exc |-> lookup.exc, out |-> NoTuple ]
            ELSE [ exc |-> "none",
                   out |-> PageTuple(text,
                                     PageMarkdown(dr, lookup.value, s_ix, e_ix),
                                     PageTokens(dr, lookup.value, s_ix, e_ix),
                                     page_cells, segs.segments, page, s_ix, e_ix) ]

\* The plain text of the synthetic page: the texts of the resolved elements,
\* each followed by a space.
SyntheticContentText(main_text) ==
    Flatten([ i \in 1..Len(main_text) |->
                IF ~ResolvesToNone(main_text[i]) /\ main_text[i].text \notin { NoneText, <<>> }
                THEN main_text[i].text \o <<" ">> ELSE <<>> ])

\* The placeholder page of the synthetic case: page 1, A4.
DummyPage == [ page_no |-> 1, has_size |-> TRUE ]

\* The element the loop is at, resolved.
CurItem == Resolved(doc_result.main_text[ix + 1])
CurRaw == doc_result.main_text[ix + 1]

\* A synthetic page whose Markdown field is always the export.
SyntheticMarkdownExportOnly(dr, original_md, s_ix, e_ix) ==
    LegacyExportToMarkdown(dr.main_text, s_ix, e_ix)

\* The Markdown field of the synthetic page: the original text when there is
\* one, else the export of the whole range.
SyntheticMarkdown(dr, original_md, s_ix, e_ix) ==
    IF original_md # NoneText THEN original_md
    ELSE LegacyExportToMarkdown(dr.main_text, s_ix, e_ix)

\* The generator is suspended at a yield or over: nothing more is running.
PagesIdle ==
    /\ doc_result = [ has_get_original_markdown |-> TRUE, original_markdown |-> NoneText,
                      pages |-> <<>>, main_text_is_none |-> TRUE, main_text |-> <<>> ]
    /\ pc = "idle"
    /\ ix = 0 /\ page_no = 0 /\ start_ix = 0 /\ end_ix = 0
    /\ doc_items = <<>> /\ content_text = <<>> /\ emitted = <<>> /\ exc = "none"

ChunkIdle ==
    /\ doc = [ has_get_original_markdown |-> FALSE, original_markdown |-> NoneText,
               items |-> <<>>, body |-> <<"body">>, origin |-> "origin" ]
    /\ serializer = NoSerializer /\ call = NoCall /\ repeated = FALSE /\ gen = "none"
    /\ chunks = <<>> /\ raised = "none"

\* generate_multimodal_pages(doc_result) called: the locals as set on entry.
PagesInit ==
    /\ doc_result \in ConversionResults
    /\ pc = "start"
    /\ ix = 0 /\ page_no = 0 /\ start_ix = 0 /\ end_ix = 0
    /\ doc_items = <<>> /\ content_text = <<>> /\ emitted = <<>> /\ exc = "none"

\* A yield of _process_page()'s result: the tuple goes out and the generator
\* waits at `at`, or the exception ends the generator.
YieldProcessPage(r, at) ==
    IF r.exc # "none"
    THEN /\ pc' = "raised"
         /\ exc' = r.exc
         /\ UNCHANGED emitted
    ELSE /\ pc' = at
         /\ emitted' = Append(emitted, r.out)
         /\ UNCHANGED exc

\* doc.main_text is None: the generator returns at once.
BeginNoMainText ==
    /\ pc = "start"
    /\ doc_result.main_text_is_none
    /\ pc' = "done"
    /\ UNCHANGED <<doc_result, ix, page_no, start_ix, end_ix, doc_items, content_text,
                   emitted, exc>>
    /\ UNCHANGED chunkVars

\* [(ix, item) for ix, item in enumerate(doc.main_text)]
Enumerate(main_text) == [ i \in 1..Len(main_text) |-> <<i - 1, main_text[i]>> ]

\* No element carries page information and there are no pages: the
\* synthetic page is yielded.
BeginSyntheticPage ==
    /\ pc = "start"
    /\ ~doc_result.main_text_is_none
    /\ ~HasItemsWithPages(doc_result.main_text)
    /\ doc_result.pages = <<>>
    /\ page_no' = 1
    /\ start_ix' = 0
    /\ end_ix' = Len(doc_result.main_text) - 1
    /\ doc_items' = Enumerate(doc_result.main_text)
    /\ content_text' = SyntheticContentText(doc_result.main_text)
    /\ LET lookup == GetOriginalMarkdown(doc_result)
       IN  IF lookup.exc # "none"
           THEN /\ pc' = "raised"
                /\ exc' = lookup.exc
                /\ UNCHANGED emitted
           ELSE /\ pc' = "single_yielded"
                /\ emitted' = Append(emitted,
                      PageTuple(content_text',
                                SyntheticMarkdown(doc_result, lookup.value, start_ix', end_ix'),
                                PageTokens(doc_result, lookup.value, start_ix', end_ix'),
                                <<>>, <<>>, DummyPage, start_ix', end_ix'))
                /\ UNCHANGED exc
    /\ UNCHANGED <<doc_result, ix>>
    /\ UNCHANGED chunkVars

\* No element carries page information but there are pages: the first page
\* is processed for the whole document.
BeginFirstPage ==
    /\ pc = "start"
    /\ ~doc_result.main_text_is_none
    /\ ~HasItemsWithPages(doc_result.main_text)
    /\ doc_result.pages # <<>>
    /\ page_no' = 1
    /\ start_ix' = 0
    /\ end_ix' = Len(doc_result.main_text) - 1
    /\ doc_items' = Enumerate(doc_result.main_text)
    /\ YieldProcessPage(ProcessPage(doc_result, page_no', start_ix', end_ix', doc_items',
                                    content_text), "single_yielded")
    /\ UNCHANGED <<doc_result, ix, content_text>>
    /\ UNCHANGED chunkVars

\* Some element carries page information: the loop over main_text starts.
BeginPaginated ==
    /\ pc = "start"
    /\ ~doc_result.main_text_is_none
    /\ HasItemsWithPages(doc_result.main_text)
    /\ pc' = "loop"
    /\ ix' = 0
    /\ UNCHANGED <<doc_result, page_no, start_ix, end_ix, doc_items, content_text,
                   emitted, exc>>
    /\ UNCHANGED chunkVars

\* An element without provenance is skipped.
LoopSkip ==
    /\ pc = "loop"
    /\ ix < Len(doc_result.main_text)
    /\ ~HasProv(CurRaw)
    /\ ix' = ix + 1
    /\ UNCHANGED <<doc_result, pc, page_no, start_ix, end_ix, doc_items, content_text,
                   emitted, exc>>
    /\ UNCHANGED chunkVars

\* page_no > 0 and item_page > page_no
PageComplete(p_no, item_page) == p_no > 0 /\ item_page > p_no

\* The element's page is beyond the current one: the run is yielded.
LoopYield ==
    /\ pc = "loop"
    /\ ix < Len(doc_result.main_text)
    /\ HasProv(CurRaw)
    /\ PageComplete(page_no, CurItem.prov[1])
    /\ YieldProcessPage(ProcessPage(doc_result, page_no, start_ix, end_ix, doc_items,
                                    content_text), "page_yielded")
    /\ UNCHANGED <<doc_result, ix, page_no, start_ix, end_ix, doc_items, content_text>>
    /\ UNCHANGED chunkVars

\* The element joins the run `items` with text `text`.
AddItem(items, text) ==
    /\ page_no' = CurItem.prov[1]
    /\ end_ix' = ix
    /\ doc_items' = Append(items, <<ix, CurItem>>)
    /\ content_text' = IF CurItem.text \notin { NoneText, <<>> }
                       THEN text \o CurItem.text \o <<" ">>
                       ELSE text
    /\ ix' = ix + 1

\* A resume that leaves the start of the run where it was.
LoopResumeKeepingStart ==
    /\ pc = "page_yielded"
    /\ pc' = "loop"
    /\ UNCHANGED start_ix
    /\ AddItem(<<>>, <<>>)
    /\ UNCHANGED <<doc_result, emitted, exc>>
    /\ UNCHANGED chunkVars

\* After the yield the run is reset to start at the element, which joins it.
LoopResume ==
    /\ pc = "page_yielded"
    /\ pc' = "loop"
    /\ start_ix' = ix
    /\ AddItem(<<>>, <<>>)
    /\ UNCHANGED <<doc_result, emitted, exc>>
    /\ UNCHANGED chunkVars

\* The element is on the current page (or the first): it joins the run.
LoopAdd ==
    /\ pc = "loop"
    /\ ix < Len(doc_result.main_text)
    /\ HasProv(CurRaw)
    /\ ~PageComplete(page_no, CurItem.prov[1])
    /\ AddItem(doc_items, content_text)
    /\ UNCHANGED <<doc_result, pc, start_ix, emitted, exc>>
    /\ UNCHANGED chunkVars

\* The loop is over: the run in progress is yielded if it has elements.
LoopExit ==
    /\ pc = "loop"
    /\ ix = Len(doc_result.main_text)
    /\ IF Len(doc_items) > 0
       THEN YieldProcessPage(ProcessPage(doc_result, page_no, start_ix, end_ix, doc_items,
                                         content_text), "final_yielded")
       ELSE pc' = "done" /\ UNCHANGED <<emitted, exc>>
    /\ UNCHANGED <<doc_result, ix, page_no, start_ix, end_ix, doc_items, content_text>>
    /\ UNCHANGED chunkVars

\* The consumer asks again after the last yield: the generator returns.
Return ==
    /\ pc \in { "single_yielded", "final_yielded" }
    /\ pc' = "done"
    /\ UNCHANGED <<doc_result, ix, page_no, start_ix, end_ix, doc_items, content_text,
                   emitted, exc>>
    /\ UNCHANGED chunkVars

\* ------------------------------------------------------------ specifications
Init == ChunkInit /\ PagesIdle

Next ==
    \/ GetSerializer
    \/ \E parts \in SeqsUpTo(PartTexts, MaxParts) : SerializeDoc(parts)
    \/ \E item \in ItemTexts : Serialize(item)
    \/ ChunkCall
    \/ ChunkYield
    \/ ChunkEnd
    \/ ChunkWithOriginalPreservation

Spec == Init /\ [][Next]_vars

InitPages == PagesInit /\ ChunkIdle

NextPages ==
    \/ BeginNoMainText
    \/ BeginSyntheticPage
    \/ BeginFirstPage
    \/ BeginPaginated
    \/ LoopSkip
    \/ LoopYield
    \/ LoopResume
    \/ LoopAdd
    \/ LoopExit
    \/ Return

SpecPages == InitPages /\ [][NextPages]_vars

\* ------------------------------------------------------------------- claims
\* The original text the document stores: what get_original_markdown returns,
\* None when the document has no such method.
StoredOriginal(d) == IF d.has_get_original_markdown THEN d.original_markdown ELSE NoneText

\* The parts of a whole-document request: one per element of the document.
WholeDocumentParts(d) == [ i \in 1..Len(d.items) |-> StdSerialize(d.items[i].item) ]

\* C1: for a document with stored original text, serialize_doc on the parts
\* of the whole document returns that text, whatever the number of parts,
\* zero and one included.
C1_WholeDocumentYieldsOriginal ==
    ( /\ call.op = "serialize_doc"
      /\ StoredOriginal(doc) # NoneText
      /\ call.arg = WholeDocumentParts(doc) )
    => call.result = StoredOriginal(doc)

\* C2: chunk(doc) does not raise, and the text of its chunk is the stored
\* original text when the document has one, else doc.export_to_markdown():
\* when get_original_markdown returns None and when the method is missing.
C2_ChunkTextOriginalOrExport ==
    /\ gen # "raised"
    /\ gen \in { "yielded", "done" } =>
         /\ Len(chunks) = 1
         /\ chunks[1].text = IF StoredOriginal(doc) # NoneText
                             THEN StoredOriginal(doc)
                             ELSE ExportToMarkdown(doc)

C2_Witness ==
    /\ gen = "yielded"
    /\ ~doc.has_get_original_markdown
    /\ Len(doc.items) > 1
    /\ chunks[1].text = ExportToMarkdown(doc)

\* C3: chunk(doc) yields exactly one chunk and then ends; the chunk's doc_items
\* is not empty: the elements of iterate_items() in order, unwrapped, or the
\* root element alone when there are none.
C3_OneChunkNonEmptyDocItems ==
    /\ gen \in { "none", "created" } => chunks = <<>>
    /\ gen \in { "yielded", "done" } =>
         /\ Len(chunks) = 1
         /\ Len(chunks[1].meta.doc_items) > 0
         /\ chunks[1].meta.doc_items =
              IF Len(doc.items) = 0 THEN <<doc.body>>
              ELSE [ i \in 1..Len(doc.items) |-> doc.items[i].item ]

C3_Witness ==
    /\ gen = "done"
    /\ doc.items = <<>>
    /\ chunks[1].meta.doc_items = <<doc.body>>

\* The original text of the conversion result, None without the method.
OriginalMd == StoredOriginal(doc_result)

\* Some element of main_text carries provenance.
Paginated == ~doc_result.main_text_is_none /\ HasItemsWithPages(doc_result.main_text)

\* The tuple was built for the run [0, last index of main_text].
SpansDocument(t) == t.start_ix = 0 /\ t.end_ix = Len(doc_result.main_text) - 1

\* C4: on a paginated document every yielded tuple's Markdown field is the
\* original text exactly when there is original text and the run is
\* [0, last index]; for every other run it is the export called with the
\* run's start and end index.
C4_PaginatedMarkdown ==
    Paginated =>
      \A i \in 1..Len(emitted) :
        emitted[i].content_md =
          IF OriginalMd # NoneText /\ SpansDocument(emitted[i])
          THEN OriginalMd
          ELSE LegacyExportToMarkdown(doc_result.main_text, emitted[i].start_ix,
                                      emitted[i].end_ix)

C4_Witness ==
    /\ Paginated
    /\ OriginalMd # NoneText
    /\ \E i \in 1..Len(emitted) :
         /\ SpansDocument(emitted[i])
         /\ emitted[i].content_md = OriginalMd
         /\ LegacyExportToMarkdown(doc_result.main_text, 0, emitted[i].end_ix) # OriginalMd

\* No element carries provenance and the conversion result has original text.
NonPaginatedWithOriginal ==
    /\ ~doc_result.main_text_is_none
    /\ ~HasItemsWithPages(doc_result.main_text)
    /\ OriginalMd # NoneText

\* C5: on a non-paginated document with stored original text the Markdown
\* field of the yielded tuple is that text, with or without page records and
\* for any number of elements.
C5_NonPaginatedMarkdown ==
    (NonPaginatedWithOriginal /\ pc \in { "single_yielded", "done" }) =>
      /\ Len(emitted) = 1
      /\ emitted[1].content_md = OriginalMd

C5_Witness ==
    /\ NonPaginatedWithOriginal
    /\ pc = "single_yielded"
    /\ doc_result.pages # <<>>
    /\ Len(doc_result.main_text) > 1
    /\ emitted[1].content_md = OriginalMd
    /\ LegacyExportToMarkdown(doc_result.main_text, 0, Len(doc_result.main_text) - 1) # OriginalMd

\* C6: a missing get_original_markdown never leaves an operation as an
\* error: not the serializer's construction, not chunk, not the page
\* generator.
C6_AbsenceNeverEscalates ==
    /\ raised # "AttributeError: get_original_markdown"
    /\ exc # "AttributeError: get_original_markdown"

\* C7: serialize_doc returns the original text captured at construction
\* exactly when that text is not None and there is more than one part; in
\* every other case it returns what the standard serialize_doc returns.
C7_SerializeDocDecision ==
    call.op = "serialize_doc" =>
      call.result = IF StoredOriginal(doc) # NoneText /\ Len(call.arg) > 1
                    THEN StoredOriginal(doc)
                    ELSE StdSerializeDoc(call.arg)

C7_Witness ==
    /\ call.op = "serialize_doc"
    /\ StoredOriginal(doc) # NoneText
    /\ Len(call.arg) = 1
    /\ call.result = StdSerializeDoc(call.arg)
    /\ call.result # StoredOriginal(doc)

\* C8: serialize of one element returns what the standard serialize returns,
\* with or without stored original text; it is the original text only when
\* the standard result is.
C8_SerializeDelegates ==
    call.op = "serialize" =>
      /\ call.result = StdSerialize(call.arg[1])
      /\ call.result = StoredOriginal(doc) => StdSerialize(call.arg[1]) = StoredOriginal(doc)

C8_Witness ==
    /\ call.op = "serialize"
    /\ serializer.original_content # NoneText
    /\ call.result # serializer.original_content

\* C9: the tokenized field of every yielded tuple is the document-tokens
\* export called with the tuple's start and end index and without page
\* index; the original text never takes its place.
C9_TokensNeverSubstituted ==
    \A i \in 1..Len(emitted) :
      emitted[i].content_dt =
        LegacyExportToDocumentTokens(doc_result.main_text, emitted[i].start_ix,
                                     emitted[i].end_ix, FALSE)

C9_Witness ==
    /\ OriginalMd # NoneText
    /\ \E i \in 1..Len(emitted) :
         /\ SpansDocument(emitted[i])
         /\ Len(doc_result.main_text) > 1
         /\ emitted[i].content_md = OriginalMd
         /\ emitted[i].content_dt # OriginalMd

\* C10: the same call made twice running gives the same result, and no step
\* changes the document or the serializer's cached original text.
C10_Idempotent ==
    [][ /\ doc' = doc
        /\ serializer.constructed => serializer' = serializer
        /\ (call.op # "none" /\ call'.op = call.op /\ call'.arg = call.arg)
             => call'.result = call.result ]_vars

C10_Witness ==
    /\ repeated
    /\ call.op = "serialize_doc"
    /\ Len(call.arg) > 1
    /\ serializer.original_content # NoneText
    /\ call.result = serializer.original_content

ProvIndices == { i \in 0..(Len(doc_result.main_text) - 1) : HasProv(doc_result.main_text[i + 1]) }
PageAt(i) == doc_result.main_text[i + 1].prov[1]

\* The elements with provenance whose page is greater than the page of the
\* element with provenance before them: the page-number increases.
PageIncreases ==
    { i \in ProvIndices :
        \E j \in ProvIndices :
          /\ j < i
          /\ \A k \in ProvIndices : ~(j < k /\ k < i)
          /\ PageAt(i) > PageAt(j) }

\* The tuples whose run holds index i.
RunsHolding(i) == { n \in 1..Len(emitted) : emitted[n].start_ix <= i /\ i <= emitted[n].end_ix }

\* What C12 says of the runs once the pass has come to its end.
RunsAtEnd ==
    /\ Len(emitted) = Cardinality(PageIncreases) + 1
    /\ \A i \in ProvIndices : Cardinality(RunsHolding(i)) = 1

\* C12: in the paginated pass a page-number increase makes the run so far
\* go out as one tuple before the element is added, and the run in progress
\* goes out once after the last element: the pass ends with every element
\* with provenance in exactly one yielded run and as many tuples as
\* page-number increases plus one.
C12_RunsEmittedAtPageIncrease ==
    Paginated =>
      /\ pc = "page_yielded" =>
           /\ emitted[Len(emitted)].start_ix = start_ix
           /\ emitted[Len(emitted)].end_ix = end_ix
           /\ end_ix < ix
           /\ ix \in PageIncreases
      /\ pc \in { "final_yielded", "done", "raised" } => RunsAtEnd

\* C13: when the run's page has no record in the page collection, or the
\* record has no size, the pass is not aborted: no error is raised for the
\* missing page and the run is yielded.
C13_MissingPageDoesNotAbort ==
    Paginated =>
      /\ exc # "IndexError: pages[page_ix]"
      /\ \A n \in 1..Len(emitted) :
           ~emitted[n].page.has_size =>
             emitted[n].page_cells = <<>> /\ emitted[n].page_segments = <<>>

\* The indices of the run of tuple t whose element has a mapped type and
\* geometry, when the tuple's page has a size: those that get a segment.
SegmentIndices(t) ==
    { i \in t.start_ix..t.end_ix :
        /\ t.page.has_size
        /\ HasProv(doc_result.main_text[i + 1])
        /\ label_to_doclaynet(doc_result.main_text[i + 1].obj_type) # "None" }

\* C14: the segments of every yielded tuple are, in element order, one for
\* each element of the run with a mapped type, geometry and a page of known
\* size; every other element is skipped without an error, in the paginated
\* pass and in the branch that uses the first page record alike.
C14_SegmentsOrSilentSkip ==
    /\ exc \notin { "IndexError: prov[0]", "AttributeError: prov" }
    /\ \A n \in 1..Len(emitted) :
         LET segs == emitted[n].page_segments
         IN  /\ Len(segs) = Cardinality(SegmentIndices(emitted[n]))
             /\ \A k \in 1..Len(segs) :
                  /\ segs[k].index_in_doc \in SegmentIndices(emitted[n])
                  /\ segs[k].label =
                       label_to_doclaynet(doc_result.main_text[segs[k].index_in_doc + 1].obj_type)
                  /\ k > 1 => segs[k - 1].index_in_doc < segs[k].index_in_doc

\* C15: in the paginated pass every yielded run has start_ix <= end_ix and
\* each run starts after the run before it ends, so no index is in two runs.
C15_RunsDisjointIncreasing ==
    Paginated =>
      \A n \in 1..Len(emitted) :
        /\ emitted[n].start_ix <= emitted[n].end_ix
        /\ n > 1 => emitted[n - 1].end_ix < emitted[n].start_ix

C15_Witness ==
    /\ Paginated
    /\ Len(emitted) > 1
    /\ emitted[1].end_ix < emitted[2].start_ix
====
